---- MODULE Spec2Model ----
(***************************************************************************)
(* A model of aoccy, a parser combinator library (src/aoccy.py).           *)
(*                                                                         *)
(* A parser is a tree of records; Parse(p, view) evaluates p.parse(view)   *)
(* the way the Python code does, threading the mutable View through the    *)
(* sub-parser invocations.  An invocation either returns a ParseResult,    *)
(* raises a Python exception, or never returns (an unbounded repetition    *)
(* of a parser that keeps succeeding without moving the view).             *)
(*                                                                         *)
(* A behaviour of the state machine is one parse: Init builds a View over  *)
(* the source and positions it, and an action invokes one parser on it,    *)
(* recording the parser, the view at entry and the outcome.                *)
(***************************************************************************)
EXTENDS Integers, Sequences, FiniteSets, TLC

VARIABLES source, view, parser, entry, out, strings, rendered

vars == <<source, view, parser, entry, out, strings, rendered>>

(***************************************************************************)
(* Bounds of the model.                                                    *)
(***************************************************************************)
MaxLen == 3        \* longest source text
MaxHigh == 2       \* largest upper bound of a repetition p[lo:hi]
MaxItems == 3      \* longest list handed to english_format_list

Chars == {"a", "b", "\n"}

\* Python's None where an int is expected (slice start/stop, _between's high)
NoneInt == -1

(***************************************************************************)
(* Python values: results of parsers.                                      *)
(***************************************************************************)
None == [t |-> "None", v |-> <<>>]
Str(s) == [t |-> "str", v |-> s]
Match(s) == [t |-> "match", v |-> s]
Tuple(x, y) == [t |-> "tuple", v |-> <<x, y>>]
List(xs) == [t |-> "list", v |-> xs]
IntV(n) == [t |-> "int", v |-> <<n>>]

\* tokens of an expected set
ReprTok(s) == [k |-> "repr", s |-> s]                 \* repr(string)
RegexTok(pattern) == [k |-> "text matching", s |-> <<pattern>>]
EofTok == [k |-> "EOF", s |-> <<>>]
LabelTok(l) == [k |-> "label", s |-> <<l>>]

(***************************************************************************)
(* class View                                                              *)
(***************************************************************************)
View(src) == [idx |-> 0, line |-> 0, column |-> 0]

save(v) == v

load(v, data) == data

Min(x, y) == IF x < y THEN x ELSE y

\* source[start:stop] of Python for 0 <= start, 0 <= stop
PySlice(s, start, stop) == SubSeq(s, start + 1, Min(stop, Len(s)))

\* View.__getitem__ for the slice [:n] (n = NoneInt for [:])
\* stop = i.stop and i.stop + self.idx : a stop of 0 stays 0
ViewSlice(v, n) ==
    IF n = NoneInt THEN PySlice(source, v.idx, Len(source))
    ELSE IF n = 0 THEN PySlice(source, v.idx, 0)
    ELSE PySlice(source, v.idx, n + v.idx)

RECURSIVE Count(_, _)
Count(s, c) ==
    IF s = <<>> THEN 0
    ELSE (IF Head(s) = c THEN 1 ELSE 0) + Count(Tail(s), c)

\* len(t.rsplit("\n", 1)[1]) : characters after the last newline of t
RECURSIVE AfterLastNewline(_)
AfterLastNewline(s) ==
    IF s = <<>> \/ s[Len(s)] = "\n" THEN 0
    ELSE 1 + AfterLastNewline(SubSeq(s, 1, Len(s) - 1))

\* consume that never resets the column at a newline
consume_no_column_reset(v, n) ==
    LET t == ViewSlice(v, n) IN
    [idx |-> v.idx + n,
     line |-> v.line + Count(t, "\n"),
     column |-> v.column + Len(t)]

\* View.consume(n): the view after it; the returned slice is ViewSlice(v, n)
consume(v, n) ==
    LET t == ViewSlice(v, n) IN
    [idx |-> v.idx + n,
     line |-> v.line + Count(t, "\n"),
     column |-> IF Count(t, "\n") > 0 THEN AfterLastNewline(t)
                ELSE v.column + Len(t)]

(***************************************************************************)
(* class ParseResult, and the three ways an invocation can end.            *)
(***************************************************************************)
DefaultConsumed == TRUE        \* __init__(..., consumed=True, ...)

\* a returned ParseResult, the view as the invocation left it, and the
\* number of sub-parser invocations the invoked function made itself
ParseResult(result, success, consumed, expected, v, ran) ==
    [kind |-> "ret", exc |-> "", result |-> result, succeeded |-> success,
     consumed |-> consumed, expected |-> expected, view |-> v, ran |-> ran]

Raise(exc, v, ran) ==
    [kind |-> "raise", exc |-> exc, result |-> None, succeeded |-> FALSE,
     consumed |-> FALSE, expected |-> {}, view |-> v, ran |-> ran]

Hang(v, ran) ==
    [kind |-> "hang", exc |-> "", result |-> None, succeeded |-> FALSE,
     consumed |-> FALSE, expected |-> {}, view |-> v, ran |-> ran]

NoOut ==
    [kind |-> "none", exc |-> "", result |-> None, succeeded |-> FALSE,
     consumed |-> FALSE, expected |-> {}, view |-> View(<<>>), ran |-> 0]

\* an exception or a non-termination of a sub-parser ends the caller too
Propagate(t, ran) == [t EXCEPT !.ran = ran]

(***************************************************************************)
(* english_format_list.  A Python str is a sequence of characters.         *)
(***************************************************************************)
\* sep.join(strs)
RECURSIVE Join(_, _)
Join(sep, strs) ==
    IF strs = <<>> THEN <<>>
    ELSE IF Len(strs) = 1 THEN strs[1]
    ELSE strs[1] \o sep \o Join(sep, Tail(strs))

\* english_format_list without the comma before " or "
english_format_list_no_comma(strs) ==
    IF Len(strs) = 1 THEN strs[1]
    ELSE Join(<<",", " ">>, SubSeq(strs, 1, Len(strs) - 1))
         \o <<" ", "o", "r", " ">> \o strs[Len(strs)]

\* ", ".join(strings[:-1]) + ","*(len(strings)>2) + " or " + strings[-1]
english_format_list(strs) ==
    IF Len(strs) = 1 THEN strs[1]
    ELSE Join(<<",", " ">>, SubSeq(strs, 1, Len(strs) - 1))
         \o (IF Len(strs) > 2 THEN <<",">> ELSE <<>>)
         \o <<" ", "o", "r", " ">> \o strs[Len(strs)]

(***************************************************************************)
(* Parser values.  Each constructor of the library builds one node.        *)
(***************************************************************************)
lit(string) == [op |-> "lit", s |-> string]
regex(pattern) == [op |-> "regex", pat |-> pattern]
eof == [op |-> "eof"]
pos == [op |-> "pos"]
pure(v) == [op |-> "pure", val |-> v]
empty == [op |-> "empty"]
optional(p) == [op |-> "optional", p |-> p]
lookahead(p) == [op |-> "lookahead", p |-> p]
cp(p) == [op |-> "cp", p |-> p]
defer(p) == [op |-> "defer", thunk |-> p]      \* f is lambda: p

\* the functions handed to map in this model
Fn(name, arg) == [fn |-> name, arg |-> arg]
Item(i) == Fn("item", IntV(i))                  \* lambda l: l[i]
Const(val) == Fn("const", val)                  \* lambda _: val
Wrap == Fn("wrap", None)                        \* lambda x: [x]
SepFlat == Fn("sep_flat", None)      \* lambda p: [p[0]] + p[1] if p else []

\* the Parser methods and operators
map(p, func) == [op |-> "map", p |-> p, func |-> func]
label(p, l) == [op |-> "label", p |-> p, l |-> l]
between(p, low, high) == [op |-> "between", p |-> p, low |-> low, high |-> high]
or(first, second) == [op |-> "or", first |-> first, second |-> second]
then(first, second) == [op |-> "then", first |-> first, second |-> second]

\* Parser.__getitem__ with a slice start:stop (NoneInt for an absent part)
GetSlice(p, start, stop) ==
    between(p, IF start = NoneInt \/ start = 0 THEN 0 ELSE start, stop)
\* Parser.__getitem__ with an int
GetIndex(p, i) == between(p, i, i)
\* Parser.__invert__, __or__, __xor__, __rshift__, __lshift__, __and__, set
Invert(p) == optional(p)
Xor(p, other) == or(cp(p), other)
Rshift(p, other) == map(then(p, other), Item(1))
Lshift(p, other) == map(then(p, other), Item(0))
set(p, val) == map(p, Const(val))

\* sep_by(sep, p): (~(p & (sep >> p)[:])).map(lambda ...)
sep_by(sep, p) ==
    map(Invert(then(p, GetSlice(Rshift(sep, p), NoneInt, NoneInt))), SepFlat)

\* sep_end_by(sep, p): sep_by(sep, p) << ~sep
sep_end_by(sep, p) == Lshift(sep_by(sep, p), Invert(sep))

\* func(result) for the functions above
Apply(func, r) ==
    CASE func.fn = "item" -> r.v[func.arg.v[1] + 1]
      [] func.fn = "const" -> func.arg
      [] func.fn = "wrap" -> List(<<r>>)
      [] func.fn = "sep_flat" ->
            IF r = None THEN List(<<>>)
            ELSE List(<<r.v[1]>> \o r.v[2].v)

(***************************************************************************)
(* re.match for the patterns of this model: "a*", "a+" and "[a\n]*" are    *)
(* greedy runs of a character class with a minimal length.                 *)
(***************************************************************************)
Patterns == {"a*", "a+", "[a\\n]*"}

PatternClass(pattern) ==
    IF pattern = "[a\\n]*" THEN {"a", "\n"} ELSE {"a"}

PatternMin(pattern) == IF pattern = "a+" THEN 1 ELSE 0

RECURSIVE RunLength(_, _)
RunLength(s, class) ==
    IF s = <<>> \/ Head(s) \notin class THEN 0
    ELSE 1 + RunLength(Tail(s), class)

\* m.end() of re.match(pattern, text), or NoneInt when m is None
MatchEnd(pattern, text) ==
    LET n == RunLength(text, PatternClass(pattern)) IN
    IF n >= PatternMin(pattern) THEN n ELSE NoneInt

(***************************************************************************)
(* The parsing functions.  Each takes the view at entry and yields the     *)
(* outcome together with the view as it leaves it.                         *)
(***************************************************************************)
RECURSIVE Parse(_, _)

_map(p, func, v) ==
    LET t == Parse(p, v) IN
    IF t.kind # "ret" THEN Propagate(t, 1)
    ELSE IF t.succeeded
         THEN [t EXCEPT !.result = Apply(func, t.result), !.ran = 1]
         ELSE [t EXCEPT !.ran = 1]

\* _label as spec 4.7 words it: relabels a failure only
_label_failure_only(p, l, v) ==
    LET t == Parse(p, v) IN
    IF t.kind # "ret" THEN Propagate(t, 1)
    ELSE IF ~t.succeeded /\ ~t.consumed /\ t.expected # {}
         THEN [t EXCEPT !.expected = {LabelTok(l)}, !.ran = 1]
         ELSE [t EXCEPT !.ran = 1]

_label(p, l, v) ==
    LET t == Parse(p, v) IN
    IF t.kind # "ret" THEN Propagate(t, 1)
    ELSE IF ~t.consumed /\ t.expected # {}
         THEN [t EXCEPT !.expected = {LabelTok(l)}, !.ran = 1]
         ELSE [t EXCEPT !.ran = 1]

\* first loop of _between: for _ in range(low), "we *must* succeed"
RECURSIVE BetweenMust(_, _, _, _, _)
BetweenMust(p, n, v, results, ran) ==
    IF n <= 0
    THEN [kind |-> "go", view |-> v, results |-> results, ran |-> ran]
    ELSE LET t == Parse(p, v) IN
         IF t.kind # "ret" THEN Propagate(t, ran + 1)
         ELSE IF ~t.succeeded THEN [t EXCEPT !.ran = ran + 1]
         ELSE BetweenMust(p, n - 1, t.view, Append(results, t.result), ran + 1)

\* bool(high) for high an int or None
Bool(high) == high # NoneInt /\ high # 0

\* second loop of _between: for _ in range(high - low), or itertools.count()
\* when high is None (n is then unused), "we *may* succeed".
\* bound is FALSE until the loop body has assigned res.
RECURSIVE BetweenMay(_, _, _, _, _, _, _, _)
BetweenMay(p, n, high, v, results, bound, resExpected, ran) ==
    IF high # NoneInt /\ n <= 0
    THEN IF bound
         THEN ParseResult(List(results), TRUE, Bool(high), resExpected, v, ran)
         ELSE Raise("UnboundLocalError", v, ran)
    ELSE LET res == Parse(p, v) IN
         IF res.kind # "ret" THEN Propagate(res, ran + 1)
         ELSE IF ~res.succeeded
              THEN IF res.consumed THEN [res EXCEPT !.ran = ran + 1]
                   ELSE ParseResult(List(results), TRUE, Bool(high),
                                    res.expected, res.view, ran + 1)
         ELSE IF high = NoneInt /\ res.view = v
              THEN Hang(v, ran + 1)      \* the same iteration repeats forever
         ELSE BetweenMay(p, n - 1, high, res.view,
                         Append(results, res.result), TRUE, res.expected, ran + 1)

_between(p, low, high, v) ==
    LET m == BetweenMust(p, low, v, <<>>, 0) IN
    IF m.kind # "go" THEN m
    ELSE BetweenMay(p, high - low, high, m.view, m.results, FALSE, {}, m.ran)

\* optional that turns a committed failure into a success as well
_optional_swallow(p, v) ==
    LET t == Parse(p, v) IN
    IF t.kind # "ret" THEN Propagate(t, 1)
    ELSE IF ~t.succeeded
         THEN [t EXCEPT !.succeeded = TRUE, !.ran = 1]
         ELSE [t EXCEPT !.ran = 1]

_optional(p, v) ==
    LET t == Parse(p, v) IN
    IF t.kind # "ret" THEN Propagate(t, 1)
    ELSE IF ~t.succeeded
         THEN IF t.consumed THEN [t EXCEPT !.ran = 1]
              ELSE [t EXCEPT !.succeeded = TRUE, !.ran = 1]
         ELSE [t EXCEPT !.ran = 1]

\* lookahead that forgets view.load(now)
_lookahead_no_load(p, v) ==
    LET t == Parse(p, v) IN
    IF t.kind # "ret" THEN Propagate(t, 1)
    ELSE [t EXCEPT !.consumed = FALSE, !.ran = 1]

_lookahead(p, v) ==
    LET now == save(v)
        t == Parse(p, v)
    IN IF t.kind # "ret" THEN Propagate(t, 1)
       ELSE [t EXCEPT !.view = load(t.view, now), !.consumed = FALSE, !.ran = 1]

_cp(p, v) ==
    LET now == save(v)
        t == Parse(p, v)
    IN IF t.kind # "ret" THEN Propagate(t, 1)
       ELSE IF ~t.succeeded /\ t.consumed
            THEN [t EXCEPT !.view = load(t.view, now), !.consumed = FALSE, !.ran = 1]
            ELSE [t EXCEPT !.ran = 1]

_defer(thunk, v) == Propagate(Parse(thunk, v), 1)

_or(first, second, v) ==
    LET t1 == Parse(first, v) IN
    IF t1.kind # "ret" THEN Propagate(t1, 1)
    ELSE IF t1.succeeded \/ t1.consumed THEN [t1 EXCEPT !.ran = 1]
    ELSE LET t2 == Parse(second, t1.view) IN
         IF t2.kind # "ret" THEN Propagate(t2, 2)
         ELSE IF t2.succeeded \/ t2.consumed THEN [t2 EXCEPT !.ran = 2]
         ELSE ParseResult(None, FALSE, FALSE, t1.expected \cup t2.expected,
                          t2.view, 2)

\* _then that builds the pair the wrong way round
_then_swapped(first, second, v) ==
    LET t == Parse(first, v) IN
    IF t.kind # "ret" THEN Propagate(t, 1)
    ELSE IF ~t.succeeded THEN [t EXCEPT !.ran = 1]
    ELSE LET t2 == Parse(second, t.view) IN
         IF t2.kind # "ret" THEN Propagate(t2, 2)
         ELSE [t2 EXCEPT
                 !.consumed = t2.consumed \/ t.consumed,
                 !.expected = IF ~t2.succeeded \/ t2.expected # {}
                              THEN t2.expected \cup t.expected
                              ELSE t2.expected,
                 !.result = Tuple(t2.result, t.result),
                 !.ran = 2]

_then(first, second, v) ==
    LET t == Parse(first, v) IN
    IF t.kind # "ret" THEN Propagate(t, 1)
    ELSE IF ~t.succeeded THEN [t EXCEPT !.ran = 1]
    ELSE LET t2 == Parse(second, t.view) IN
         IF t2.kind # "ret" THEN Propagate(t2, 2)
         ELSE [t2 EXCEPT
                 !.consumed = t2.consumed \/ t.consumed,
                 !.expected = IF ~t2.succeeded \/ t2.expected # {}
                              THEN t2.expected \cup t.expected
                              ELSE t2.expected,
                 !.result = Tuple(t.result, t2.result),
                 !.ran = 2]

_lit(string, v) ==
    LET t == ViewSlice(v, Len(string)) IN
    IF t = string
    THEN ParseResult(Str(ViewSlice(v, Len(string))), TRUE, DefaultConsumed, {},
                     consume(v, Len(string)), 0)
    ELSE ParseResult(None, FALSE, FALSE, {ReprTok(string)}, v, 0)

_regex(pattern, v) ==
    LET end == MatchEnd(pattern, ViewSlice(v, NoneInt)) IN
    IF end = NoneInt
    THEN ParseResult(None, FALSE, FALSE, {RegexTok(pattern)}, v, 0)
    ELSE ParseResult(Match(ViewSlice(v, end)), TRUE, DefaultConsumed, {},
                     consume(v, end), 0)

_eof(v) ==
    IF v.idx = Len(source)
    THEN ParseResult(None, TRUE, FALSE, {}, v, 0)
    ELSE ParseResult(None, FALSE, FALSE, {EofTok}, v, 0)

_pos(v) ==
    ParseResult(Tuple(IntV(v.line), IntV(v.column)), TRUE, FALSE, {}, v, 0)

\* pure and _empty declare no view parameter, and Parser.parse calls
\* self.logic(view=view)
_pure(val, v) == Raise("TypeError", v, 0)

_empty(v) == Raise("TypeError", v, 0)

\* Parser.parse: self.logic(view=view)
Parse(p, v) ==
    CASE p.op = "lit" -> _lit(p.s, v)
      [] p.op = "regex" -> _regex(p.pat, v)
      [] p.op = "eof" -> _eof(v)
      [] p.op = "pos" -> _pos(v)
      [] p.op = "pure" -> _pure(p.val, v)
      [] p.op = "empty" -> _empty(v)
      [] p.op = "map" -> _map(p.p, p.func, v)
      [] p.op = "label" -> _label(p.p, p.l, v)
      [] p.op = "between" -> _between(p.p, p.low, p.high, v)
      [] p.op = "optional" -> _optional(p.p, v)
      [] p.op = "lookahead" -> _lookahead(p.p, v)
      [] p.op = "cp" -> _cp(p.p, v)
      [] p.op = "defer" -> _defer(p.thunk, v)
      [] p.op = "or" -> _or(p.first, p.second, v)
      [] p.op = "then" -> _then(p.first, p.second, v)

(***************************************************************************)
(* Names the module and class Parser define.  p.bind(f) and p(f) evaluate  *)
(* an attribute of Parser and a module-level name.                         *)
(***************************************************************************)
ParserAttrs ==
    {"logic", "parse", "__getitem__", "__invert__", "__or__", "__truediv__",
     "__xor__", "__rshift__", "__lshift__", "__and__", "__add__", "__call__",
     "label", "map", "set", "parse_text"}

ModuleNames ==
    {"View", "ParseResult", "english_format_list", "format_error",
     "ParseError", "Parser", "parser", "_map", "_label", "_maybe_parse",
     "_between", "optional", "lookahead", "cp", "defer", "_or", "_then",
     "lit", "regex", "_eof", "eof", "_pos", "pos", "pure", "_empty", "empty",
     "lexeme_gen", "symbol_gen", "sep_by", "sep_end_by"}

\* lambda _: q, a function that returns the parser q
Returning(q) == Fn("returning", q)

bind(p, func) == [op |-> "bind", p |-> p, func |-> func]
call(p, func) == [op |-> "call", p |-> p, func |-> func]

\* p.bind(func).parse(view): the attribute lookup comes first
BindMethod(p, func, v) ==
    IF "bind" \notin ParserAttrs THEN Raise("AttributeError", v, 0)
    ELSE Raise("NotImplemented", v, 0)

\* p(func).parse(view): Parser.__call__ returns _bind(self, func)
__call__(p, func, v) ==
    IF "_bind" \notin ModuleNames THEN Raise("NameError", v, 0)
    ELSE Raise("NotImplemented", v, 0)

(***************************************************************************)
(* The inputs of the model.                                                *)
(***************************************************************************)
RECURSIVE SeqsUpTo(_, _)
SeqsUpTo(S, n) ==
    IF n = 0 THEN {<<>>}
    ELSE LET shorter == SeqsUpTo(S, n - 1) IN
         shorter \cup {Append(s, c) : s \in shorter, c \in S}

Sources == SeqsUpTo(Chars, MaxLen)

LitStrings == {<<>>, <<"a">>, <<"b">>, <<"\n">>}

Values == {None, Str(<<"a">>)}

Funcs == {Const(None), Wrap}

\* functions handed to bind: some return a value, some return a parser
BindFuncs == Funcs \cup {Returning(q) : q \in {lit(<<"b">>), eof}}

Labels == {"A"}

Lows == {NoneInt} \cup (0 .. MaxHigh)
Highs == {NoneInt} \cup (0 .. MaxHigh)

Prims ==
    {lit(s) : s \in LitStrings} \cup {regex(pat) : pat \in Patterns}
    \cup {eof, pos, empty} \cup {pure(val) : val \in Values}

A == lit(<<"a">>)
B == lit(<<"b">>)

\* combinators used as sub-parsers of the invoked parser
Composites ==
    {GetSlice(A, NoneInt, NoneInt),           \* a[:]
     GetSlice(A, 2, NoneInt),                 \* a[2:]
     GetSlice(A, 1, 2),                       \* a[1:2]
     GetIndex(A, 1),                          \* a[1]
     GetSlice(lit(<<>>), NoneInt, NoneInt),   \* lit("")[:]
     then(A, B),                              \* a & b
     then(GetSlice(A, NoneInt, NoneInt), B),  \* a[:] & b
     or(A, B),                                \* a | b
     Invert(A),                               \* ~a
     cp(then(A, B)),                          \* cp(a & b)
     label(A, "A")}

Operands == Prims \cup Composites

(***************************************************************************)
(* One parse: a View over the source, advanced over a prefix with consume, *)
(* and then one parser invoked on it.                                      *)
(***************************************************************************)
NoParser == [op |-> "none"]

Init ==
    /\ source \in Sources
    /\ view \in {consume(View(source), n) : n \in 0 .. Len(source)}
    /\ parser = NoParser
    /\ entry = view
    /\ out = NoOut
    /\ strings = <<>>
    /\ rendered = <<>>

\* no parser has been invoked on the view yet
Ready == out.kind = "none" /\ strings = <<>>

\* res = self.parse(view): the one invocation of a parse
Invoke(p, r) ==
    /\ parser' = p
    /\ entry' = view
    /\ out' = r
    /\ view' = r.view
    /\ UNCHANGED <<source, strings, rendered>>

Lit ==
    /\ Ready
    /\ \E s \in LitStrings :
          Invoke(lit(s), Parse(lit(s), view))

Regex ==
    /\ Ready
    /\ \E pat \in Patterns :
          Invoke(regex(pat), Parse(regex(pat), view))

Eof ==
    /\ Ready
    /\ Invoke(eof, Parse(eof, view))

Pos ==
    /\ Ready
    /\ Invoke(pos, Parse(pos, view))

Pure ==
    /\ Ready
    /\ \E val \in Values :
          Invoke(pure(val), Parse(pure(val), view))

Empty ==
    /\ Ready
    /\ Invoke(empty, Parse(empty, view))

Map ==
    /\ Ready
    /\ \E p \in Operands, f \in Funcs :
          Invoke(map(p, f), Parse(map(p, f), view))

Label ==
    /\ Ready
    /\ \E p \in Operands, l \in Labels :
          Invoke(label(p, l), Parse(label(p, l), view))

\* p[start:stop]
Slice ==
    /\ Ready
    /\ \E p \in Operands, start \in Lows, stop \in Highs :
          Invoke(GetSlice(p, start, stop), Parse(GetSlice(p, start, stop), view))

\* p[n]
Index ==
    /\ Ready
    /\ \E p \in Operands, n \in 0 .. MaxHigh :
          Invoke(GetIndex(p, n), Parse(GetIndex(p, n), view))

Optional ==
    /\ Ready
    /\ \E p \in Operands :
          Invoke(optional(p), Parse(optional(p), view))

Lookahead ==
    /\ Ready
    /\ \E p \in Operands :
          Invoke(lookahead(p), Parse(lookahead(p), view))

Cp ==
    /\ Ready
    /\ \E p \in Operands :
          Invoke(cp(p), Parse(cp(p), view))

Defer ==
    /\ Ready
    /\ \E p \in Operands :
          Invoke(defer(p), Parse(defer(p), view))

Or ==
    /\ Ready
    /\ \E p \in Operands, q \in Operands :
          Invoke(or(p, q), Parse(or(p, q), view))

Then ==
    /\ Ready
    /\ \E p \in Operands, q \in Operands :
          Invoke(then(p, q), Parse(then(p, q), view))

\* the parsers put in sequence three at a time
SeqOperands ==
    {A, B, lit(<<"\n">>), regex("a*"), eof, empty, Invert(A),
     GetSlice(A, NoneInt, NoneInt)}

\* ((a & b) & c).parse(view)
ThenThen ==
    /\ Ready
    /\ \E a \in SeqOperands, b \in SeqOperands, c \in SeqOperands :
          Invoke(then(then(a, b), c), Parse(then(then(a, b), c), view))

\* the separators and the items of the lists of this model
Separators == {B, lit(<<"\n">>)}
Elements == {A, regex("a+")}

\* sep_by(sep, p).parse(view)
SepBy ==
    /\ Ready
    /\ \E sep \in Separators, p \in Elements :
          Invoke(sep_by(sep, p), Parse(sep_by(sep, p), view))

\* sep_end_by(sep, p).parse(view)
SepEndBy ==
    /\ Ready
    /\ \E sep \in Separators, p \in Elements :
          Invoke(sep_end_by(sep, p), Parse(sep_end_by(sep, p), view))

\* p.bind(f).parse(view)
Bind ==
    /\ Ready
    /\ \E p \in Operands, f \in BindFuncs :
          Invoke(bind(p, f), BindMethod(p, f, view))

\* p(f).parse(view)
Call ==
    /\ Ready
    /\ \E p \in Operands, f \in BindFuncs :
          Invoke(call(p, f), __call__(p, f, view))

\* the rendered expected tokens a list is made of: 'a', EOF and a label
Items == {<<"'", "a", "'">>, <<"E", "O", "F">>, <<"A">>}

ItemLists == SeqsUpTo(Items, MaxItems) \ {<<>>}

\* english_format_list(expected), as format_error calls it for a non-empty
\* expected set, whose iteration order is any
EnglishFormatList ==
    /\ Ready
    /\ \E strs \in ItemLists :
          /\ strings' = strs
          /\ rendered' = english_format_list(strs)
    /\ UNCHANGED <<source, view, parser, entry, out>>

Next ==
    \/ Lit \/ Regex \/ Eof \/ Pos \/ Pure \/ Empty
    \/ Map \/ Label \/ Slice \/ Index \/ Optional \/ Lookahead \/ Cp \/ Defer
    \/ Or \/ Then \/ ThenThen \/ Bind \/ Call
    \/ SepBy \/ SepEndBy \/ EnglishFormatList

Spec == Init /\ [][Next]_vars

(***************************************************************************)
(* Vocabulary of the properties.                                           *)
(***************************************************************************)
Returned(t) == t.kind = "ret"
Failed(t) == t.kind = "ret" /\ ~t.succeeded

\* two outcomes agree in the four fields of a ParseResult
SameOutcome(t, u) ==
    /\ t.kind = "ret" /\ u.kind = "ret"
    /\ t.succeeded = u.succeeded
    /\ t.consumed = u.consumed
    /\ t.result = u.result
    /\ t.expected = u.expected

\* the first n consecutive invocations of p from v, as far as they succeed:
\* their number, their results and the view after the last of them
RECURSIVE Successes(_, _, _)
Successes(p, v, n) ==
    IF n = 0 THEN [n |-> 0, results |-> <<>>, view |-> v]
    ELSE LET t == Parse(p, v) IN
         IF t.kind = "ret" /\ t.succeeded
         THEN LET rest == Successes(p, t.view, n - 1) IN
              [n |-> rest.n + 1, results |-> <<t.result>> \o rest.results,
               view |-> rest.view]
         ELSE [n |-> 0, results |-> <<>>, view |-> v]

(***************************************************************************)
(* C1  Alternative commitment: when the first branch a of a | b advances   *)
(* the view's idx and then fails, b is not invoked and the outcome of      *)
(* a | b is a's outcome.                                                   *)
(***************************************************************************)
C1_AlternativeCommitment ==
    parser.op = "or" =>
        LET a == Parse(parser.first, entry) IN
        (Failed(a) /\ a.view.idx > entry.idx) =>
            /\ out.ran = 1
            /\ SameOutcome(out, a)
            /\ view = a.view

(***************************************************************************)
(* C2  Commit point: when p fails, cp(p) returns a failure with            *)
(* consumed=false and the view's idx, line and column are those at entry,  *)
(* whatever consumed flag p's own outcome carried.                         *)
(***************************************************************************)
C2_CommitPoint ==
    parser.op = "cp" =>
        LET t == Parse(parser.p, entry) IN
        Failed(t) =>
            /\ Failed(out)
            /\ ~out.consumed
            /\ view = entry

(***************************************************************************)
(* C3  Outcome invariant: an invocation of any primitive or combinator     *)
(* that returns succeeded=false and consumed=false leaves the view's idx,  *)
(* line and column as they were at entry.                                  *)
(***************************************************************************)
C3_UncommittedFailureKeepsView ==
    (Failed(out) /\ ~out.consumed) => view = entry

(***************************************************************************)
(* C4  For lit and regex the outcome's consumed flag is true exactly when  *)
(* the invocation advanced idx; lit("") and an empty regex match succeed   *)
(* with idx unchanged and consumed=false.                                  *)
(***************************************************************************)
C4_PrimitiveConsumedIffAdvanced ==
    (parser.op \in {"lit", "regex"} /\ Returned(out)) =>
        (out.consumed <=> view.idx > entry.idx)

(***************************************************************************)
(* C5  A successful repetition p[lo:hi] has consumed=true exactly when     *)
(* idx at exit is greater than idx at entry.                               *)
(***************************************************************************)
C5_RepetitionConsumedIffAdvanced ==
    (parser.op = "between" /\ Returned(out) /\ out.succeeded) =>
        (out.consumed <=> view.idx > entry.idx)

(***************************************************************************)
(* C6  Repetition bounds, for 0 <= lo <= hi or hi absent: a successful     *)
(* p[lo:hi] yields the list of p's results in input order, of a length     *)
(* within [lo, hi]; and when p succeeds fewer than lo consecutive times    *)
(* from the entry position, p[lo:hi] returns a failure.                    *)
(***************************************************************************)
C6_RepetitionBounds ==
    (/\ parser.op = "between"
     /\ parser.low >= 0
     /\ parser.high = NoneInt \/ parser.low <= parser.high) =>
        /\ (Returned(out) /\ out.succeeded) =>
              /\ out.result.t = "list"
              /\ Len(out.result.v) >= parser.low
              /\ parser.high # NoneInt => Len(out.result.v) <= parser.high
              /\ Successes(parser.p, entry, Len(out.result.v)).results
                    = out.result.v
        /\ Successes(parser.p, entry, parser.low).n < parser.low => Failed(out)

(***************************************************************************)
(* C7  Exact repetition: when p succeeds n consecutive times (n >= 0),     *)
(* p[n] returns a successful outcome whose result is the list of those n   *)
(* results, with the view just after the n-th match; it does not raise.    *)
(***************************************************************************)
C7_ExactRepetition ==
    (/\ parser.op = "between"
     /\ parser.low = parser.high
     /\ Successes(parser.p, entry, parser.low).n = parser.low) =>
        /\ Returned(out)
        /\ out.succeeded
        /\ out.result = List(Successes(parser.p, entry, parser.low).results)
        /\ view = Successes(parser.p, entry, parser.low).view

\* the recorded invocation and p, run from the same position, agree on
\* succeeded, on the result of a success and on the final view position
AgreesWith(p) ==
    LET t == Parse(p, entry) IN
    Returned(t) =>
        /\ Returned(out)
        /\ out.succeeded = t.succeeded
        /\ out.succeeded => out.result = t.result
        /\ view = t.view

(***************************************************************************)
(* C8  Alternative identity: empty fails zero-width with an empty expected *)
(* set, and empty | p, p and p | empty each return an outcome and agree on *)
(* succeeded, on result and on the final view position.                    *)
(***************************************************************************)
C8_AlternativeIdentity ==
    /\ parser.op = "empty" =>
          /\ Failed(out)
          /\ ~out.consumed
          /\ out.expected = {}
          /\ view = entry
    /\ (parser.op = "or" /\ parser.first = empty) => AgreesWith(parser.second)
    /\ (parser.op = "or" /\ parser.second = empty) => AgreesWith(parser.first)

(***************************************************************************)
(* C9  pure(v) returns succeeded=true, consumed=false, result=v and an     *)
(* empty expected set, and leaves idx, line and column unchanged.          *)
(***************************************************************************)
C9_Pure ==
    parser.op = "pure" =>
        /\ Returned(out)
        /\ out.succeeded
        /\ ~out.consumed
        /\ out.result = parser.val
        /\ out.expected = {}
        /\ view = entry

(***************************************************************************)
(* C10  Bind: p.bind(f) exists; when p fails it returns p's failure; when  *)
(* p succeeds and f(result) is a parser, that parser runs from the current *)
(* position and its outcome is returned with consumed OR-ed with p's; when *)
(* f(result) is not a parser, p.bind(f) behaves as p.map(f).               *)
(***************************************************************************)
C10_Bind ==
    parser.op = "bind" =>
        LET t == Parse(parser.p, entry) IN
        /\ Failed(t) => SameOutcome(out, t) /\ view = t.view
        /\ (Returned(t) /\ t.succeeded /\ parser.func.fn = "returning") =>
              LET t2 == Parse(parser.func.arg, t.view) IN
              Returned(t2) =>
                  /\ Returned(out)
                  /\ out.succeeded = t2.succeeded
                  /\ out.result = t2.result
                  /\ out.expected = t2.expected
                  /\ out.consumed = (t.consumed \/ t2.consumed)
                  /\ view = t2.view
        /\ (Returned(t) /\ t.succeeded /\ parser.func.fn # "returning") =>
              LET m == Parse(map(parser.p, parser.func), entry) IN
              SameOutcome(out, m) /\ view = m.view

(***************************************************************************)
(* C11  Label locality as claimed: (i) when p fails with consumed=false,   *)
(* p.label(n) fails with expected exactly {n}; (ii) when p succeeds, or    *)
(* fails with consumed=true, p.label(n)'s outcome equals p's in all four   *)
(* fields, also for a zero-width success carrying a non-empty expected     *)
(* set.                                                                    *)
(***************************************************************************)
C11_LabelLocality ==
    parser.op = "label" =>
        LET t == Parse(parser.p, entry) IN
        /\ (Failed(t) /\ ~t.consumed) =>
              Failed(out) /\ out.expected = {LabelTok(parser.l)}
        /\ (Returned(t) /\ (t.succeeded \/ t.consumed)) => SameOutcome(out, t)

(***************************************************************************)
(* C11 amended: p.label(n) returns p's succeeded, consumed and result and  *)
(* leaves the view where p left it; its expected set is {n} whenever p's   *)
(* outcome, success or failure, has consumed=false and a non-empty         *)
(* expected set, and p's expected set otherwise; an uncommitted failure of *)
(* p is always relabelled to exactly {n}.                                  *)
(***************************************************************************)
C11_LabelLocalityAmended ==
    parser.op = "label" =>
        LET t == Parse(parser.p, entry) IN
        Returned(t) =>
            /\ Returned(out)
            /\ out.succeeded = t.succeeded
            /\ out.consumed = t.consumed
            /\ out.result = t.result
            /\ view = t.view
            /\ out.expected = IF ~t.consumed /\ t.expected # {}
                              THEN {LabelTok(parser.l)}
                              ELSE t.expected
            /\ (Failed(t) /\ ~t.consumed) => out.expected = {LabelTok(parser.l)}

\* a zero-width success of p with a non-empty expected set was relabelled
C11_Witness ==
    /\ parser.op = "label"
    /\ Returned(out) /\ out.succeeded /\ ~out.consumed
    /\ view = entry
    /\ out.expected = {LabelTok(parser.l)}
    /\ Parse(parser.p, entry).expected = {ReprTok(<<"a">>)}

(***************************************************************************)
(* C12  Lookahead neutrality: after lookahead(p) returns, whether p        *)
(* succeeded, failed uncommitted or failed after consuming, the view's     *)
(* idx, line and column are those at entry, consumed is false, and         *)
(* succeeded and result are p's.                                           *)
(***************************************************************************)
C12_LookaheadNeutrality ==
    (parser.op = "lookahead" /\ Returned(out)) =>
        LET t == Parse(parser.p, entry) IN
        /\ view = entry
        /\ ~out.consumed
        /\ out.succeeded = t.succeeded
        /\ out.result = t.result

\* lookahead over a p that moved the view past a newline and then failed
C12_Witness ==
    /\ parser.op = "lookahead"
    /\ Failed(out)
    /\ LET t == Parse(parser.p, entry) IN
       /\ Failed(t) /\ t.consumed
       /\ t.view.idx > entry.idx
    /\ view = entry

\* the items separated by ", "
RECURSIVE CommaSeparated(_)
CommaSeparated(strs) ==
    IF Len(strs) = 1 THEN strs[1]
    ELSE strs[1] \o <<",", " ">> \o CommaSeparated(Tail(strs))

AllButLast(strs) == SubSeq(strs, 1, Len(strs) - 1)
Last(strs) == strs[Len(strs)]

(***************************************************************************)
(* C13  English list as claimed: one item renders as itself, two as        *)
(* "a or b", and three or more as the items joined with ", " and the last  *)
(* joined with " or ", with no comma before "or" ("a, b or c").            *)
(***************************************************************************)
C13_EnglishList ==
    strings # <<>> =>
        rendered = IF Len(strings) = 1 THEN strings[1]
                   ELSE CommaSeparated(AllButLast(strings))
                        \o <<" ", "o", "r", " ">> \o Last(strings)

(***************************************************************************)
(* C13 amended: one item renders as itself, two as "a or b", and three or  *)
(* more as the items joined with ", " and the last joined with ", or ":    *)
(* there is a comma before "or" ("a, b, or c").                            *)
(***************************************************************************)
C13_EnglishListAmended ==
    strings # <<>> =>
        rendered = IF Len(strings) = 1 THEN strings[1]
                   ELSE IF Len(strings) = 2
                   THEN strings[1] \o <<" ", "o", "r", " ">> \o strings[2]
                   ELSE CommaSeparated(AllButLast(strings))
                        \o <<",", " ", "o", "r", " ">> \o Last(strings)

\* the list 'a', EOF, A was rendered
C13_Witness ==
    /\ strings = << <<"'", "a", "'">>, <<"E", "O", "F">>, <<"A">> >>
    /\ rendered = <<"'", "a", "'", ",", " ", "E", "O", "F", ",", " ",
                    "o", "r", " ", "A">>

\* positions of the newlines in source[0:idx]
NewlinesBefore(idx) == {i \in 1 .. idx : source[i] = "\n"}

\* the largest element of a non-empty set of numbers
Max(S) == CHOOSE m \in S : \A x \in S : x <= m

(***************************************************************************)
(* C14  View invariant: in every state a parse reaches,                    *)
(* 0 <= idx <= len(source), line is the number of newlines in              *)
(* source[0:idx] and column the number of characters of source[0:idx]      *)
(* after its last newline; and when a parser succeeds the final idx is at  *)
(* least the idx at its entry.                                             *)
(***************************************************************************)
C14_ViewInvariant ==
    /\ 0 <= view.idx /\ view.idx <= Len(source)
    /\ view.line = Cardinality(NewlinesBefore(view.idx))
    /\ view.column = view.idx - Max(NewlinesBefore(view.idx) \cup {0})
    /\ (Returned(out) /\ out.succeeded) => view.idx >= entry.idx

\* a parser entered past the start succeeded across a newline and beyond
C14_Witness ==
    /\ Returned(out) /\ out.succeeded
    /\ entry.idx > 0
    /\ view.line > entry.line
    /\ view.column > 0
    /\ view.idx = Len(source)

(***************************************************************************)
(* C15  Sequence associativity: (a & b) & c and a & (b & c), run from the  *)
(* same position, agree on succeeded and on the final view position, and   *)
(* on success their results are ((ra, rb), rc) and (ra, (rb, rc)) for the  *)
(* results ra, rb, rc of a, b and c run one after the other.               *)
(***************************************************************************)
C15_SequenceAssociativity ==
    (parser.op = "then" /\ parser.first.op = "then") =>
        LET a == parser.first.first
            b == parser.first.second
            c == parser.second
            right == Parse(then(a, then(b, c)), entry)
            ta == Parse(a, entry)
            tb == Parse(b, ta.view)
            tc == Parse(c, tb.view)
        IN /\ right.kind = out.kind
           /\ right.view = view
           /\ Returned(out) => right.succeeded = out.succeeded
           /\ (Returned(out) /\ out.succeeded) =>
                 /\ out.result = Tuple(Tuple(ta.result, tb.result), tc.result)
                 /\ right.result = Tuple(ta.result, Tuple(tb.result, tc.result))

\* three parsers in sequence succeeded and each of a and c moved the view
C15_Witness ==
    /\ parser.op = "then" /\ parser.first.op = "then"
    /\ Returned(out) /\ out.succeeded
    /\ Parse(parser.first.first, entry).view.idx > entry.idx
    /\ view.idx > Parse(parser.first, entry).view.idx
    /\ view.idx = entry.idx + 3

(***************************************************************************)
(* C16  Termination: every invocation of a parser built without defer      *)
(* recursion ends; in particular the unbounded repetitions p[:] and p[lo:] *)
(* end also when p succeeds without advancing the view.                    *)
(***************************************************************************)
C16_Termination ==
    parser.op # "none" => out.kind # "hang"

(***************************************************************************)
(* C17  Sequence expected set: when a succeeds and b's own outcome has     *)
(* consumed=false (a zero-width success or an uncommitted failure), the    *)
(* expected set of a & b includes a's expected set, its consumed is        *)
(* a.consumed OR b.consumed, and on success its result is the pair         *)
(* (a.result, b.result).                                                   *)
(***************************************************************************)
C17_SequenceExpected ==
    parser.op = "then" =>
        LET ta == Parse(parser.first, entry)
            tb == Parse(parser.second, ta.view)
        IN (Returned(ta) /\ ta.succeeded /\ Returned(tb) /\ ~tb.consumed) =>
              /\ Returned(out)
              /\ ta.expected \subseteq out.expected
              /\ out.consumed = (ta.consumed \/ tb.consumed)
              /\ out.succeeded => out.result = Tuple(ta.result, tb.result)

\* a failure after consumption
Committed(t) == Failed(t) /\ t.consumed

\* the invoked combinator made n sub-parser invocations, the last of which
\* returned t, stopped there and handed the committed failure on
StoppedAt(t, n) ==
    Committed(t) =>
        /\ out.ran = n
        /\ Committed(out)
        /\ view = t.view

\* the iterations a repetition may run: all of low, then up to high - low,
\* or, without high, as many as can move the view and one more
Iterations(low, high) ==
    IF high = NoneInt THEN low + Len(source) + 1
    ELSE IF high > low THEN high ELSE low

(***************************************************************************)
(* C18  Committed-failure propagation: when the sub-parser invocation that *)
(* map, set, label, optional, a repetition, an alternative (either branch) *)
(* or a sequence (either position) just ran returned succeeded=false with  *)
(* consumed=true, the combinator runs no further sub-parser, leaves the    *)
(* view where that invocation left it and returns succeeded=false with     *)
(* consumed=true.                                                          *)
(***************************************************************************)
C18_CommittedFailurePropagates ==
    /\ parser.op \in {"map", "label", "optional"} =>
          StoppedAt(Parse(parser.p, entry), 1)
    /\ parser.op = "or" =>
          LET t1 == Parse(parser.first, entry) IN
          /\ StoppedAt(t1, 1)
          /\ (Failed(t1) /\ ~t1.consumed) =>
                StoppedAt(Parse(parser.second, t1.view), 2)
    /\ parser.op = "then" =>
          LET t == Parse(parser.first, entry) IN
          /\ StoppedAt(t, 1)
          /\ (Returned(t) /\ t.succeeded) =>
                StoppedAt(Parse(parser.second, t.view), 2)
    /\ parser.op = "between" =>
          LET all == Iterations(parser.low, parser.high)
              s == Successes(parser.p, entry, all)
          IN s.n < all => StoppedAt(Parse(parser.p, s.view), s.n + 1)

\* the second iteration of a repetition failed after consuming
C18_Witness ==
    /\ parser.op = "between"
    /\ out.ran = 2
    /\ Committed(out)
    /\ view.idx > entry.idx + 2
    /\ Committed(Parse(parser.p, Parse(parser.p, entry).view))

\* the items of the input "p (sep p)*" read from v, where the first p has
\* matched already: item results so far in items, view after the last one
RECURSIVE MoreItems(_, _, _, _, _)
MoreItems(sep, p, v, items, fuel) ==
    LET ts == Parse(sep, v)
        tp == Parse(p, ts.view)
    IN IF fuel > 0 /\ Returned(ts) /\ ts.succeeded
          /\ Returned(tp) /\ tp.succeeded
       THEN MoreItems(sep, p, tp.view, Append(items, tp.result), fuel - 1)
       ELSE [items |-> items, view |-> v]

ItemsFrom(sep, p, v) ==
    LET t == Parse(p, v) IN
    MoreItems(sep, p, t.view, <<t.result>>, Len(source))

\* t is a failure that neither moved the view from v nor reports consumption
FailsAt(t, v) == Failed(t) /\ ~t.consumed /\ t.view = v

IsSepBy(q) == q.op = "map" /\ q.func = SepFlat

IsSepEndBy(q) ==
    /\ q.op = "map" /\ q.func = Item(0)
    /\ q.p.op = "then"
    /\ IsSepBy(q.p.first)

\* the sep and the p a sep_by parser was built from
SepOf(q) == q.p.p.second.p.p.first
ElementOf(q) == q.p.p.first

(***************************************************************************)
(* C19  Separator lists: sep_by(sep, p) succeeds with [] and an unmoved    *)
(* view when the first p fails uncommitted, and with the flat in-order     *)
(* list of the k items on input p (sep p)^(k-1); sep_end_by(sep, p)        *)
(* moreover accepts one trailing separator: on k >= 1 items followed by    *)
(* one more sep, after which p cannot start, it succeeds with the k items  *)
(* and the view after the trailing sep.                                    *)
(***************************************************************************)
C19_SeparatorLists ==
    /\ IsSepBy(parser) =>
          LET sep == SepOf(parser)
              p == ElementOf(parser)
              first == Parse(p, entry)
              its == ItemsFrom(sep, p, entry)
          IN /\ FailsAt(first, entry) =>
                   /\ Returned(out) /\ out.succeeded
                   /\ out.result = List(<<>>)
                   /\ view = entry
             /\ (/\ Returned(first) /\ first.succeeded
                 /\ FailsAt(Parse(sep, its.view), its.view)) =>
                   /\ Returned(out) /\ out.succeeded
                   /\ out.result = List(its.items)
                   /\ view = its.view
    /\ IsSepEndBy(parser) =>
          LET sep == SepOf(parser.p.first)
              p == ElementOf(parser.p.first)
              first == Parse(p, entry)
              its == ItemsFrom(sep, p, entry)
              trailing == Parse(sep, its.view)
          IN (/\ Returned(first) /\ first.succeeded
              /\ Returned(trailing) /\ trailing.succeeded
              /\ FailsAt(Parse(p, trailing.view), trailing.view)) =>
                /\ Returned(out) /\ out.succeeded
                /\ out.result = List(its.items)
                /\ view = trailing.view

====
